---- MODULE Spec2Model ----
(***************************************************************************)
(* Model of lfsr32.c: a parallel L1 memory self-test.  NB_CORES cluster    *)
(* cores fill the region [ADDR_FIRST, ADDR_LAST) with the output of a      *)
(* 32-bit LFSR (phase 1), meet at a team barrier, re-derive the pattern    *)
(* under the reversed core identity and count the differing bits (phase    *)
(* 2), and add their counts to glob_errors inside the team critical        *)
(* section.  The fabric controller resets glob_errors, sends the cluster   *)
(* task, and reports success iff the returned value is 0.                  *)
(*                                                                         *)
(* A uint32_t is a tuple <<b0, b1, b2, b3>> of bytes, b0 the least         *)
(* significant one: TLC's integers are 32-bit signed, so the full width    *)
(* is kept byte by byte and every operation wraps at 2^32 as in C.         *)
(***************************************************************************)
EXTENDS Integers, Sequences, FiniteSets

(***************************************************************************)
(* Bounds of the model.  The source fixes NB_CORES, NB_ITER and the region *)
(* at compile time; the model runs the same code for every configuration   *)
(* within these bounds.                                                    *)
(***************************************************************************)
MaxCores == 3
MaxIter == 2
MaxWords == 3
MaxBytes == 4
MaxCoresIter == 2
MaxRounds == 2

(***************************************************************************)
(* uint32_t arithmetic.                                                    *)
(***************************************************************************)
\* x ^ y on two values below 2^n
RECURSIVE XorBits(_, _, _)
XorBits(x, y, n) ==
  IF n = 0 THEN 0
  ELSE ((x + y) % 2) + 2 * XorBits(x \div 2, y \div 2, n - 1)

\* number of 1 bits of a value below 2^n
RECURSIVE CntBits(_, _)
CntBits(x, n) ==
  IF n = 0 THEN 0 ELSE (x % 2) + CntBits(x \div 2, n - 1)

\* a ^ b on uint32_t
Xor32(a, b) == [i \in 1..4 |-> XorBits(a[i], b[i], 8)]

\* a >> 8 on uint32_t
Shr8(a) == <<a[2], a[3], a[4], 0>>

\* a & 0xff on uint32_t, as an integer
LowByte(a) == a[1]

\* a + n on uint32_t, for an int 0 <= n < 2^24, wrapping at 2^32
Add32(a, n) ==
  LET s1 == a[1] + (n % 256)
      s2 == a[2] + ((n \div 256) % 256) + (s1 \div 256)
      s3 == a[3] + ((n \div 65536) % 256) + (s2 \div 256)
      s4 == a[4] + (s3 \div 256)
  IN  <<s1 % 256, s2 % 256, s3 % 256, s4 % 256>>

\* __builtin_pulp_cnt: the population count of a uint32_t
pulp_cnt(a) ==
  CntBits(a[1], 8) + CntBits(a[2], 8) + CntBits(a[3], 8) + CntBits(a[4], 8)

(***************************************************************************)
(* Program constants.                                                      *)
(***************************************************************************)
\* 0xdeadbeef
DEFAULT_SEED == <<\hef, \hbe, \had, \hde>>
\* number of test iterations
NB_ITER == 1
\* 0x10008000
ADDR_FIRST == 268468224

\* the generator polynomial of the 32-bit register, 0x80000057: the FEEDBACK
\* of lfsr_iter_bit, which the build without USE_BYTE_FEEDBACK expects
FEEDBACK == <<\h57, 0, 0, \h80>>

\* pre-computed feedback terms, entry i of the C array at index i + 1
lfsr_byte_feedback ==
  <<
   <<\h00, \h00, \h00, \h00>>, <<\h0b, \h00, \h00, \h13>>, <<\h16, \h00, \h00, \h26>>, <<\h1d, \h00, \h00, \h35>>,
   <<\h2c, \h00, \h00, \h4c>>, <<\h27, \h00, \h00, \h5f>>, <<\h3a, \h00, \h00, \h6a>>, <<\h31, \h00, \h00, \h79>>,
   <<\h58, \h00, \h00, \h98>>, <<\h53, \h00, \h00, \h8b>>, <<\h4e, \h00, \h00, \hbe>>, <<\h45, \h00, \h00, \had>>,
   <<\h74, \h00, \h00, \hd4>>, <<\h7f, \h00, \h00, \hc7>>, <<\h62, \h00, \h00, \hf2>>, <<\h69, \h00, \h00, \he1>>,
   <<\h1f, \h00, \h00, \h30>>, <<\h14, \h00, \h00, \h23>>, <<\h09, \h00, \h00, \h16>>, <<\h02, \h00, \h00, \h05>>,
   <<\h33, \h00, \h00, \h7c>>, <<\h38, \h00, \h00, \h6f>>, <<\h25, \h00, \h00, \h5a>>, <<\h2e, \h00, \h00, \h49>>,
   <<\h47, \h00, \h00, \ha8>>, <<\h4c, \h00, \h00, \hbb>>, <<\h51, \h00, \h00, \h8e>>, <<\h5a, \h00, \h00, \h9d>>,
   <<\h6b, \h00, \h00, \he4>>, <<\h60, \h00, \h00, \hf7>>, <<\h7d, \h00, \h00, \hc2>>, <<\h76, \h00, \h00, \hd1>>,
   <<\h3e, \h00, \h00, \h60>>, <<\h35, \h00, \h00, \h73>>, <<\h28, \h00, \h00, \h46>>, <<\h23, \h00, \h00, \h55>>,
   <<\h12, \h00, \h00, \h2c>>, <<\h19, \h00, \h00, \h3f>>, <<\h04, \h00, \h00, \h0a>>, <<\h0f, \h00, \h00, \h19>>,
   <<\h66, \h00, \h00, \hf8>>, <<\h6d, \h00, \h00, \heb>>, <<\h70, \h00, \h00, \hde>>, <<\h7b, \h00, \h00, \hcd>>,
   <<\h4a, \h00, \h00, \hb4>>, <<\h41, \h00, \h00, \ha7>>, <<\h5c, \h00, \h00, \h92>>, <<\h57, \h00, \h00, \h81>>,
   <<\h21, \h00, \h00, \h50>>, <<\h2a, \h00, \h00, \h43>>, <<\h37, \h00, \h00, \h76>>, <<\h3c, \h00, \h00, \h65>>,
   <<\h0d, \h00, \h00, \h1c>>, <<\h06, \h00, \h00, \h0f>>, <<\h1b, \h00, \h00, \h3a>>, <<\h10, \h00, \h00, \h29>>,
   <<\h79, \h00, \h00, \hc8>>, <<\h72, \h00, \h00, \hdb>>, <<\h6f, \h00, \h00, \hee>>, <<\h64, \h00, \h00, \hfd>>,
   <<\h55, \h00, \h00, \h84>>, <<\h5e, \h00, \h00, \h97>>, <<\h43, \h00, \h00, \ha2>>, <<\h48, \h00, \h00, \hb1>>,
   <<\h7c, \h00, \h00, \hc0>>, <<\h77, \h00, \h00, \hd3>>, <<\h6a, \h00, \h00, \he6>>, <<\h61, \h00, \h00, \hf5>>,
   <<\h50, \h00, \h00, \h8c>>, <<\h5b, \h00, \h00, \h9f>>, <<\h46, \h00, \h00, \haa>>, <<\h4d, \h00, \h00, \hb9>>,
   <<\h24, \h00, \h00, \h58>>, <<\h2f, \h00, \h00, \h4b>>, <<\h32, \h00, \h00, \h7e>>, <<\h39, \h00, \h00, \h6d>>,
   <<\h08, \h00, \h00, \h14>>, <<\h03, \h00, \h00, \h07>>, <<\h1e, \h00, \h00, \h32>>, <<\h15, \h00, \h00, \h21>>,
   <<\h63, \h00, \h00, \hf0>>, <<\h68, \h00, \h00, \he3>>, <<\h75, \h00, \h00, \hd6>>, <<\h7e, \h00, \h00, \hc5>>,
   <<\h4f, \h00, \h00, \hbc>>, <<\h44, \h00, \h00, \haf>>, <<\h59, \h00, \h00, \h9a>>, <<\h52, \h00, \h00, \h89>>,
   <<\h3b, \h00, \h00, \h68>>, <<\h30, \h00, \h00, \h7b>>, <<\h2d, \h00, \h00, \h4e>>, <<\h26, \h00, \h00, \h5d>>,
   <<\h17, \h00, \h00, \h24>>, <<\h1c, \h00, \h00, \h37>>, <<\h01, \h00, \h00, \h02>>, <<\h0a, \h00, \h00, \h11>>,
   <<\h42, \h00, \h00, \ha0>>, <<\h49, \h00, \h00, \hb3>>, <<\h54, \h00, \h00, \h86>>, <<\h5f, \h00, \h00, \h95>>,
   <<\h6e, \h00, \h00, \hec>>, <<\h65, \h00, \h00, \hff>>, <<\h78, \h00, \h00, \hca>>, <<\h73, \h00, \h00, \hd9>>,
   <<\h1a, \h00, \h00, \h38>>, <<\h11, \h00, \h00, \h2b>>, <<\h0c, \h00, \h00, \h1e>>, <<\h07, \h00, \h00, \h0d>>,
   <<\h36, \h00, \h00, \h74>>, <<\h3d, \h00, \h00, \h67>>, <<\h20, \h00, \h00, \h52>>, <<\h2b, \h00, \h00, \h41>>,
   <<\h5d, \h00, \h00, \h90>>, <<\h56, \h00, \h00, \h83>>, <<\h4b, \h00, \h00, \hb6>>, <<\h40, \h00, \h00, \ha5>>,
   <<\h71, \h00, \h00, \hdc>>, <<\h7a, \h00, \h00, \hcf>>, <<\h67, \h00, \h00, \hfa>>, <<\h6c, \h00, \h00, \he9>>,
   <<\h05, \h00, \h00, \h08>>, <<\h0e, \h00, \h00, \h1b>>, <<\h13, \h00, \h00, \h2e>>, <<\h18, \h00, \h00, \h3d>>,
   <<\h29, \h00, \h00, \h44>>, <<\h22, \h00, \h00, \h57>>, <<\h3f, \h00, \h00, \h62>>, <<\h34, \h00, \h00, \h71>>,
   <<\h57, \h00, \h00, \h80>>, <<\h5c, \h00, \h00, \h93>>, <<\h41, \h00, \h00, \ha6>>, <<\h4a, \h00, \h00, \hb5>>,
   <<\h7b, \h00, \h00, \hcc>>, <<\h70, \h00, \h00, \hdf>>, <<\h6d, \h00, \h00, \hea>>, <<\h66, \h00, \h00, \hf9>>,
   <<\h0f, \h00, \h00, \h18>>, <<\h04, \h00, \h00, \h0b>>, <<\h19, \h00, \h00, \h3e>>, <<\h12, \h00, \h00, \h2d>>,
   <<\h23, \h00, \h00, \h54>>, <<\h28, \h00, \h00, \h47>>, <<\h35, \h00, \h00, \h72>>, <<\h3e, \h00, \h00, \h61>>,
   <<\h48, \h00, \h00, \hb0>>, <<\h43, \h00, \h00, \ha3>>, <<\h5e, \h00, \h00, \h96>>, <<\h55, \h00, \h00, \h85>>,
   <<\h64, \h00, \h00, \hfc>>, <<\h6f, \h00, \h00, \hef>>, <<\h72, \h00, \h00, \hda>>, <<\h79, \h00, \h00, \hc9>>,
   <<\h10, \h00, \h00, \h28>>, <<\h1b, \h00, \h00, \h3b>>, <<\h06, \h00, \h00, \h0e>>, <<\h0d, \h00, \h00, \h1d>>,
   <<\h3c, \h00, \h00, \h64>>, <<\h37, \h00, \h00, \h77>>, <<\h2a, \h00, \h00, \h42>>, <<\h21, \h00, \h00, \h51>>,
   <<\h69, \h00, \h00, \he0>>, <<\h62, \h00, \h00, \hf3>>, <<\h7f, \h00, \h00, \hc6>>, <<\h74, \h00, \h00, \hd5>>,
   <<\h45, \h00, \h00, \hac>>, <<\h4e, \h00, \h00, \hbf>>, <<\h53, \h00, \h00, \h8a>>, <<\h58, \h00, \h00, \h99>>,
   <<\h31, \h00, \h00, \h78>>, <<\h3a, \h00, \h00, \h6b>>, <<\h27, \h00, \h00, \h5e>>, <<\h2c, \h00, \h00, \h4d>>,
   <<\h1d, \h00, \h00, \h34>>, <<\h16, \h00, \h00, \h27>>, <<\h0b, \h00, \h00, \h12>>, <<\h00, \h00, \h00, \h01>>,
   <<\h76, \h00, \h00, \hd0>>, <<\h7d, \h00, \h00, \hc3>>, <<\h60, \h00, \h00, \hf6>>, <<\h6b, \h00, \h00, \he5>>,
   <<\h5a, \h00, \h00, \h9c>>, <<\h51, \h00, \h00, \h8f>>, <<\h4c, \h00, \h00, \hba>>, <<\h47, \h00, \h00, \ha9>>,
   <<\h2e, \h00, \h00, \h48>>, <<\h25, \h00, \h00, \h5b>>, <<\h38, \h00, \h00, \h6e>>, <<\h33, \h00, \h00, \h7d>>,
   <<\h02, \h00, \h00, \h04>>, <<\h09, \h00, \h00, \h17>>, <<\h14, \h00, \h00, \h22>>, <<\h1f, \h00, \h00, \h31>>,
   <<\h2b, \h00, \h00, \h40>>, <<\h20, \h00, \h00, \h53>>, <<\h3d, \h00, \h00, \h66>>, <<\h36, \h00, \h00, \h75>>,
   <<\h07, \h00, \h00, \h0c>>, <<\h0c, \h00, \h00, \h1f>>, <<\h11, \h00, \h00, \h2a>>, <<\h1a, \h00, \h00, \h39>>,
   <<\h73, \h00, \h00, \hd8>>, <<\h78, \h00, \h00, \hcb>>, <<\h65, \h00, \h00, \hfe>>, <<\h6e, \h00, \h00, \hed>>,
   <<\h5f, \h00, \h00, \h94>>, <<\h54, \h00, \h00, \h87>>, <<\h49, \h00, \h00, \hb2>>, <<\h42, \h00, \h00, \ha1>>,
   <<\h34, \h00, \h00, \h70>>, <<\h3f, \h00, \h00, \h63>>, <<\h22, \h00, \h00, \h56>>, <<\h29, \h00, \h00, \h45>>,
   <<\h18, \h00, \h00, \h3c>>, <<\h13, \h00, \h00, \h2f>>, <<\h0e, \h00, \h00, \h1a>>, <<\h05, \h00, \h00, \h09>>,
   <<\h6c, \h00, \h00, \he8>>, <<\h67, \h00, \h00, \hfb>>, <<\h7a, \h00, \h00, \hce>>, <<\h71, \h00, \h00, \hdd>>,
   <<\h40, \h00, \h00, \ha4>>, <<\h4b, \h00, \h00, \hb7>>, <<\h56, \h00, \h00, \h82>>, <<\h5d, \h00, \h00, \h91>>,
   <<\h15, \h00, \h00, \h20>>, <<\h1e, \h00, \h00, \h33>>, <<\h03, \h00, \h00, \h06>>, <<\h08, \h00, \h00, \h15>>,
   <<\h39, \h00, \h00, \h6c>>, <<\h32, \h00, \h00, \h7f>>, <<\h2f, \h00, \h00, \h4a>>, <<\h24, \h00, \h00, \h59>>,
   <<\h4d, \h00, \h00, \hb8>>, <<\h46, \h00, \h00, \hab>>, <<\h5b, \h00, \h00, \h9e>>, <<\h50, \h00, \h00, \h8d>>,
   <<\h61, \h00, \h00, \hf4>>, <<\h6a, \h00, \h00, \he7>>, <<\h77, \h00, \h00, \hd2>>, <<\h7c, \h00, \h00, \hc1>>,
   <<\h0a, \h00, \h00, \h10>>, <<\h01, \h00, \h00, \h03>>, <<\h1c, \h00, \h00, \h36>>, <<\h17, \h00, \h00, \h25>>,
   <<\h26, \h00, \h00, \h5c>>, <<\h2d, \h00, \h00, \h4f>>, <<\h30, \h00, \h00, \h7a>>, <<\h3b, \h00, \h00, \h69>>,
   <<\h52, \h00, \h00, \h88>>, <<\h59, \h00, \h00, \h9b>>, <<\h44, \h00, \h00, \hae>>, <<\h4f, \h00, \h00, \hbd>>,
   <<\h7e, \h00, \h00, \hc4>>, <<\h75, \h00, \h00, \hd7>>, <<\h68, \h00, \h00, \he2>>, <<\h63, \h00, \h00, \hf1>>
  >>

ZeroWord == <<0, 0, 0, 0>>

(***************************************************************************)
(* Sequence generator.                                                     *)
(***************************************************************************)
\* lfsr_iter_byte indexing the table with the second byte of lfsr
lfsr_iter_byte_second_byte(l) == Xor32(Shr8(l), lfsr_byte_feedback[l[2] + 1])

\* lfsr_iter_byte without the feedback term: lfsr >> 8
lfsr_iter_byte_no_feedback(l) == Shr8(l)

\* (lfsr >> 8) ^ lfsr_byte_feedback[lfsr & 0xff]
lfsr_iter_byte(l) == Xor32(Shr8(l), lfsr_byte_feedback[LowByte(l) + 1])

\* a >> 1 on uint32_t
Shr1(a) ==
  <<(a[1] \div 2) + 128 * (a[2] % 2), (a[2] \div 2) + 128 * (a[3] % 2),
    (a[3] \div 2) + 128 * (a[4] % 2), a[4] \div 2>>

\* (lfsr & 1) ? ((lfsr >> 1) ^ FEEDBACK) : (lfsr >> 1)
lfsr_iter_bit(l) ==
  IF LowByte(l) % 2 = 1 THEN Xor32(Shr1(l), FEEDBACK) ELSE Shr1(l)

\* lfsr_iter_byte of the build without USE_BYTE_FEEDBACK:
\* for (i = 0; i < 8; i++) l = lfsr_iter_bit(l)
RECURSIVE lfsr_iter_bits(_, _)
lfsr_iter_bits(l, i) == IF i = 0 THEN l ELSE lfsr_iter_bits(lfsr_iter_bit(l), i - 1)

lfsr_iter_byte_bits(l) == lfsr_iter_bits(l, 8)

\* the values of a uint32_t
Word == [1 .. 4 -> 0 .. 255]

\* lfsr_iter_byte applied to the value of its argument
iter_byte[l \in Word] == lfsr_iter_byte(l)

\* l = lfsr_iter_byte(lfsr); l = lfsr_iter_byte(l); l = lfsr_iter_byte(l);
\* return lfsr_iter_byte(l)
lfsr_iter_word(l) == iter_byte[iter_byte[iter_byte[iter_byte[l]]]]

(***************************************************************************)
(* State.                                                                  *)
(***************************************************************************)
VARIABLES
  seed,         \* DEFAULT_SEED of the build
  nb_cores,     \* NB_CORES of the build, the size of the team
  nb_iter,      \* NB_ITER of the build
  addr_last,    \* ADDR_LAST of the build
  infinite_loop, \* whether the build defines INFINITE_LOOP
  mem,          \* the L1 words of [ADDR_FIRST, addr_last)
  glob_errors,  \* int glob_errors
  pc,           \* per core: its position in pe_entry / run_test
  id,           \* per core: run_test's local id
  iter,         \* per core: run_test's local iter
  round,        \* per core: the passes of while(1) completed (INFINITE_LOOP)
  lfsr,         \* per core: run_test's local lfsr
  addr,         \* per core: run_test's local addr
  cnt,          \* per core: run_test's local cnt
  tmp,          \* per core: the value of glob_errors loaded by glob_errors += cnt
  ret,          \* per core: the value run_test returned
  lock,         \* the core inside the team critical section, or NoCore
  bar,          \* the cores waiting at the team barrier
  fc,           \* the fabric controller's position
  errors,       \* test_entry's local errors
  outcome,      \* what test_entry printed
  wlog,         \* history: per address, the writes made to it by the cores
  rlog,         \* history: per address, the verify reads made of it
  nadd,         \* history: per core, how often it stored to glob_errors
  order,        \* history: the cores in the order of their stores to glob_errors
  gen,          \* a generator run on its own, in both builds of lfsr_iter_byte
  faults        \* history: the bit flips injected into the region

cfg == <<seed, nb_cores, nb_iter, addr_last, infinite_loop>>
locals == <<id, iter, lfsr, addr, cnt, tmp, ret>>
host == <<fc, errors, outcome>>
vars == <<seed, nb_cores, nb_iter, addr_last, mem, glob_errors, pc, id, iter,
          lfsr, addr, cnt, tmp, ret, lock, bar, fc, errors, outcome, wlog,
          rlog, nadd, faults, gen, infinite_loop, round, order>>

NoCore == 0 - 1
Cores == 0 .. (nb_cores - 1)
NbWords == (addr_last - ADDR_FIRST) \div 4
Region == {ADDR_FIRST + 4 * k : k \in 0 .. (NbWords - 1)}

\* seeds of the explored builds: the source's, one that wraps when the
\* core id is added, and zero
Seeds == {DEFAULT_SEED, <<\hff, \hff, \hff, \hff>>, ZeroWord}

\* content of the region before the test
Junk == <<\ha5, \h5a, \ha5, \h5a>>

\* bit flips a memory fault may apply to a word: bit 0, and bits 1, 8 and 31
Masks == {<<1, 0, 0, 0>>, <<2, 1, 0, \h80>>}

\* the state at the start of main, whatever the build's constants
InitState ==
  /\ mem = [a \in Region |-> Junk]
  /\ glob_errors = 0
  /\ pc = [u \in Cores |-> "off"]
  /\ id = [u \in Cores |-> 0]
  /\ iter = [u \in Cores |-> 0]
  /\ round = [u \in Cores |-> 0]
  /\ lfsr = [u \in Cores |-> ZeroWord]
  /\ addr = [u \in Cores |-> 0]
  /\ cnt = [u \in Cores |-> 0]
  /\ tmp = [u \in Cores |-> 0]
  /\ ret = [u \in Cores |-> 0]
  /\ lock = NoCore
  /\ bar = {}
  /\ fc = "start"
  /\ errors = 0
  /\ outcome = "none"
  /\ wlog = [a \in Region |-> <<>>]
  /\ rlog = [a \in Region |-> <<>>]
  /\ nadd = [u \in Cores |-> 0]
  /\ order = <<>>
  /\ faults = <<>>

\* no generator runs on its own
GenIdle == [s0 |-> ZeroWord, tab |-> ZeroWord, bit |-> ZeroWord, n |-> 0]

\* every build within the bounds
Init ==
  /\ gen = GenIdle
  /\ infinite_loop = FALSE
  /\ seed \in Seeds
  /\ nb_cores \in 1 .. MaxCores
  /\ nb_iter \in 1 .. MaxIter
  /\ addr_last \in {ADDR_FIRST + 4 * k : k \in 1 .. MaxWords}
  /\ InitState

\* the builds with the source's DEFAULT_SEED and NB_ITER
InitFault ==
  /\ gen = GenIdle
  /\ infinite_loop = FALSE
  /\ seed = DEFAULT_SEED
  /\ nb_cores \in 1 .. MaxCores
  /\ nb_iter = NB_ITER
  /\ addr_last \in {ADDR_FIRST + 4 * k : k \in 1 .. MaxWords}
  /\ InitState

(***************************************************************************)
(* Fabric controller: launch_cluster_task and test_entry.                  *)
(***************************************************************************)
\* glob_errors = 0, open the cluster and send the task
launch_cluster_task ==
  /\ fc = "start"
  /\ glob_errors' = 0
  /\ fc' = "sent"
  /\ UNCHANGED <<gen, round, order, cfg, mem, pc, locals, lock, bar, errors, outcome, wlog, rlog, nadd, faults>>

\* pi_cl_team_fork(0, pe_entry, 0): every core of the team enters pe_entry
\* and run_test, where cnt = 0 and iter = 0
cluster_entry ==
  /\ fc = "sent"
  /\ pc' = [u \in Cores |-> "for"]
  /\ cnt' = [u \in Cores |-> 0]
  /\ iter' = [u \in Cores |-> 0]
  /\ fc' = "forked"
  /\ UNCHANGED <<gen, round, order, cfg, mem, glob_errors, id, lfsr, addr, tmp, ret, lock, bar,
                 errors, outcome, wlog, rlog, nadd, faults>>

\* cluster_return with the task sent asynchronously and never waited for
cluster_return_no_join ==
  /\ fc = "forked"
  /\ errors' = glob_errors
  /\ fc' = "returned"
  /\ UNCHANGED <<gen, round, order, cfg, mem, glob_errors, pc, locals, lock, bar, outcome, wlog, rlog, nadd, faults>>

\* the fork joins and pi_cluster_send_task_to_cl returns once every core
\* has left pe_entry; launch_cluster_task returns glob_errors
cluster_return ==
  /\ fc = "forked"
  /\ \A u \in Cores : pc[u] = "done"
  /\ errors' = glob_errors
  /\ fc' = "returned"
  /\ UNCHANGED <<gen, round, order, cfg, mem, glob_errors, pc, locals, lock, bar, outcome, wlog, rlog, nadd, faults>>

\* if (errors) "Test failure" else "Test success"
test_entry ==
  /\ fc = "returned"
  /\ outcome' = IF errors # 0 THEN "failure" ELSE "success"
  /\ fc' = "exit"
  /\ UNCHANGED <<gen, round, order, cfg, mem, glob_errors, pc, locals, lock, bar, errors, wlog, rlog, nadd, faults>>

(***************************************************************************)
(* run_test on core u.                                                     *)
(***************************************************************************)
\* for_iter without the barrier between the loop and the critical section
for_iter_no_barrier(u) ==
  /\ pc[u] = "for"
  /\ IF iter[u] < nb_iter
     THEN /\ id' = [id EXCEPT ![u] = u]
          /\ lfsr' = [lfsr EXCEPT ![u] = Add32(seed, u)]
          /\ addr' = [addr EXCEPT ![u] = ADDR_FIRST + u * 4]
          /\ pc' = [pc EXCEPT ![u] = "write"]
     ELSE /\ pc' = [pc EXCEPT ![u] = "enter"]
          /\ UNCHANGED <<id, lfsr, addr>>
  /\ UNCHANGED <<gen, round, order, cfg, mem, glob_errors, iter, cnt, tmp, ret, lock, bar, host,
                 wlog, rlog, nadd, faults>>

\* for_iter with cnt = 0 inside the loop: the count is reset every iteration
for_iter_reset_cnt(u) ==
  /\ pc[u] = "for"
  /\ IF iter[u] < nb_iter
     THEN /\ id' = [id EXCEPT ![u] = u]
          /\ lfsr' = [lfsr EXCEPT ![u] = Add32(seed, u)]
          /\ addr' = [addr EXCEPT ![u] = ADDR_FIRST + u * 4]
          /\ cnt' = [cnt EXCEPT ![u] = 0]
          /\ pc' = [pc EXCEPT ![u] = "write"]
     ELSE /\ pc' = [pc EXCEPT ![u] = "bar2"]
          /\ UNCHANGED <<id, lfsr, addr, cnt>>
  /\ UNCHANGED <<gen, round, order, cfg, mem, glob_errors, iter, tmp, ret, lock, bar, host,
                 wlog, rlog, nadd, faults>>

\* for_iter seeding by the iteration too: lfsr = DEFAULT_SEED + id + iter
for_iter_seed_by_iter(u) ==
  /\ pc[u] = "for"
  /\ IF iter[u] < nb_iter
     THEN /\ id' = [id EXCEPT ![u] = u]
          /\ lfsr' = [lfsr EXCEPT ![u] = Add32(seed, u + iter[u])]
          /\ addr' = [addr EXCEPT ![u] = ADDR_FIRST + u * 4]
          /\ pc' = [pc EXCEPT ![u] = "write"]
     ELSE /\ pc' = [pc EXCEPT ![u] = "bar2"]
          /\ UNCHANGED <<id, lfsr, addr>>
  /\ UNCHANGED <<gen, round, order, cfg, mem, glob_errors, iter, cnt, tmp, ret, lock, bar, host,
                 wlog, rlog, nadd, faults>>

\* for_iter leaving the loop although the build defines INFINITE_LOOP
for_iter_leaves_loop(u) ==
  /\ pc[u] = "for"
  /\ IF iter[u] < nb_iter
     THEN /\ id' = [id EXCEPT ![u] = u]
          /\ lfsr' = [lfsr EXCEPT ![u] = Add32(seed, u)]
          /\ addr' = [addr EXCEPT ![u] = ADDR_FIRST + u * 4]
          /\ pc' = [pc EXCEPT ![u] = "write"]
     ELSE /\ pc' = [pc EXCEPT ![u] = "bar2"]
          /\ UNCHANGED <<id, lfsr, addr>>
  /\ UNCHANGED <<gen, round, order, cfg, mem, glob_errors, iter, cnt, tmp, ret, lock, bar, host,
                 wlog, rlog, nadd, faults>>

\* for (iter < NB_ITER): id = pi_core_id(); lfsr = DEFAULT_SEED + id;
\* addr = ADDR_FIRST + id * 4; with INFINITE_LOOP the end of the for loop
\* is the end of a pass of while(1), which starts the for loop again (the
\* model follows MaxRounds passes)
for_iter(u) ==
  /\ pc[u] = "for"
  /\ IF iter[u] < nb_iter
     THEN /\ id' = [id EXCEPT ![u] = u]
          /\ lfsr' = [lfsr EXCEPT ![u] = Add32(seed, u)]
          /\ addr' = [addr EXCEPT ![u] = ADDR_FIRST + u * 4]
          /\ pc' = [pc EXCEPT ![u] = "write"]
          /\ UNCHANGED <<iter, round>>
     ELSE IF infinite_loop
          THEN /\ round[u] < MaxRounds
               /\ round' = [round EXCEPT ![u] = @ + 1]
               /\ iter' = [iter EXCEPT ![u] = 0]
               /\ UNCHANGED <<pc, id, lfsr, addr>>
          ELSE /\ pc' = [pc EXCEPT ![u] = "bar2"]
               /\ UNCHANGED <<id, lfsr, addr, iter, round>>
  /\ UNCHANGED <<gen, order, cfg, mem, glob_errors, cnt, tmp, ret, lock, bar, host,
                 wlog, rlog, nadd, faults>>

\* write_step with addr += 4: contiguous instead of strided
write_step_unit_stride(u) ==
  /\ pc[u] = "write"
  /\ IF addr[u] < addr_last
     THEN LET l == lfsr_iter_word(lfsr[u]) IN
          /\ lfsr' = [lfsr EXCEPT ![u] = l]
          /\ mem' = [mem EXCEPT ![addr[u]] = l]
          /\ wlog' = [wlog EXCEPT ![addr[u]] =
                        Append(@, [it |-> iter[u], core |-> u, val |-> l])]
          /\ addr' = [addr EXCEPT ![u] = @ + 4]
          /\ pc' = pc
     ELSE /\ pc' = [pc EXCEPT ![u] = "bar1"]
          /\ UNCHANGED <<lfsr, mem, wlog, addr>>
  /\ UNCHANGED <<gen, round, order, cfg, glob_errors, id, iter, cnt, tmp, ret, lock, bar, host,
                 rlog, nadd, faults>>

\* write_step storing before it advances: *addr = lfsr; lfsr = lfsr_iter_word(lfsr)
write_step_store_first(u) ==
  /\ pc[u] = "write"
  /\ IF addr[u] < addr_last
     THEN LET l == lfsr_iter_word(lfsr[u]) IN
          /\ lfsr' = [lfsr EXCEPT ![u] = l]
          /\ mem' = [mem EXCEPT ![addr[u]] = lfsr[u]]
          /\ wlog' = [wlog EXCEPT ![addr[u]] =
                        Append(@, [it |-> iter[u], core |-> u, val |-> lfsr[u]])]
          /\ addr' = [addr EXCEPT ![u] = @ + 4 * nb_cores]
          /\ pc' = pc
     ELSE /\ pc' = [pc EXCEPT ![u] = "bar1"]
          /\ UNCHANGED <<lfsr, mem, wlog, addr>>
  /\ UNCHANGED <<gen, round, order, cfg, glob_errors, id, iter, cnt, tmp, ret, lock, bar, host,
                 rlog, nadd, faults>>

\* one turn of the write loop: lfsr = lfsr_iter_word(lfsr); *addr = lfsr;
\* addr += 4 * NB_CORES
write_step(u) ==
  /\ pc[u] = "write"
  /\ IF addr[u] < addr_last
     THEN LET l == lfsr_iter_word(lfsr[u]) IN
          /\ lfsr' = [lfsr EXCEPT ![u] = l]
          /\ mem' = [mem EXCEPT ![addr[u]] = l]
          /\ wlog' = [wlog EXCEPT ![addr[u]] =
                        Append(@, [it |-> iter[u], core |-> u, val |-> l])]
          /\ addr' = [addr EXCEPT ![u] = @ + 4 * nb_cores]
          /\ pc' = pc
     ELSE /\ pc' = [pc EXCEPT ![u] = "bar1"]
          /\ UNCHANGED <<lfsr, mem, wlog, addr>>
  /\ UNCHANGED <<gen, round, order, cfg, glob_errors, id, iter, cnt, tmp, ret, lock, bar, host,
                 rlog, nadd, faults>>

\* where a core resumes after the barrier it waits at
AfterBarrier(p) ==
  IF p = "bar1" THEN "rinit" ELSE IF p = "bar2" THEN "enter" ELSE "done"

\* a barrier that lets the arriving core through at once
barrier_no_wait(u) ==
  /\ pc[u] \in {"bar1", "bar2", "bar3"}
  /\ pc' = [pc EXCEPT ![u] = AfterBarrier(pc[u])]
  /\ UNCHANGED <<gen, round, order, cfg, mem, glob_errors, locals, lock, bar, host, wlog, rlog, nadd, faults>>

\* a barrier configured for a team of one core more than the team has
barrier_wrong_team(u) ==
  /\ pc[u] \in {"bar1", "bar2", "bar3"}
  /\ u \notin bar
  /\ IF Cardinality(bar \cup {u}) = nb_cores + 1
     THEN /\ bar' = {}
          /\ pc' = [w \in Cores |-> IF w \in bar \cup {u} THEN AfterBarrier(pc[w]) ELSE pc[w]]
     ELSE /\ bar' = bar \cup {u}
          /\ pc' = pc
  /\ UNCHANGED <<gen, round, order, cfg, mem, glob_errors, locals, lock, host, wlog, rlog, nadd, faults>>

\* pi_cl_team_barrier: core u arrives; the last core of the team to arrive
\* releases every waiting core
pi_cl_team_barrier(u) ==
  /\ pc[u] \in {"bar1", "bar2", "bar3"}
  /\ u \notin bar
  /\ IF bar \cup {u} = Cores
     THEN /\ bar' = {}
          /\ pc' = [w \in Cores |-> IF w \in bar \cup {u} THEN AfterBarrier(pc[w]) ELSE pc[w]]
     ELSE /\ bar' = bar \cup {u}
          /\ pc' = pc
  /\ UNCHANGED <<gen, round, order, cfg, mem, glob_errors, locals, lock, host, wlog, rlog, nadd, faults>>

\* read_init reseeding with the core's own id: lfsr = DEFAULT_SEED + pi_core_id()
read_init_own_seed(u) ==
  /\ pc[u] = "rinit"
  /\ LET rid == nb_cores - id[u] - 1 IN
     /\ id' = [id EXCEPT ![u] = rid]
     /\ lfsr' = [lfsr EXCEPT ![u] = Add32(seed, u)]
     /\ addr' = [addr EXCEPT ![u] = ADDR_FIRST + rid * 4]
  /\ pc' = [pc EXCEPT ![u] = "read"]
  /\ UNCHANGED <<gen, round, order, cfg, mem, glob_errors, iter, cnt, tmp, ret, lock, bar, host,
                 wlog, rlog, nadd, faults>>

\* read_init walking the core's own addresses: addr = ADDR_FIRST + pi_core_id() * 4
read_init_own_addr(u) ==
  /\ pc[u] = "rinit"
  /\ LET rid == nb_cores - id[u] - 1 IN
     /\ id' = [id EXCEPT ![u] = rid]
     /\ lfsr' = [lfsr EXCEPT ![u] = Add32(seed, rid)]
     /\ addr' = [addr EXCEPT ![u] = ADDR_FIRST + u * 4]
  /\ pc' = [pc EXCEPT ![u] = "read"]
  /\ UNCHANGED <<gen, round, order, cfg, mem, glob_errors, iter, cnt, tmp, ret, lock, bar, host,
                 wlog, rlog, nadd, faults>>

\* read_init without the reversal: id stays pi_core_id()
read_init_no_reversal(u) ==
  /\ pc[u] = "rinit"
  /\ LET rid == id[u] IN
     /\ id' = [id EXCEPT ![u] = rid]
     /\ lfsr' = [lfsr EXCEPT ![u] = Add32(seed, rid)]
     /\ addr' = [addr EXCEPT ![u] = ADDR_FIRST + rid * 4]
  /\ pc' = [pc EXCEPT ![u] = "read"]
  /\ UNCHANGED <<gen, round, order, cfg, mem, glob_errors, iter, cnt, tmp, ret, lock, bar, host,
                 wlog, rlog, nadd, faults>>

\* id = NB_CORES - id - 1; lfsr = DEFAULT_SEED + id; addr = ADDR_FIRST + id * 4
read_init(u) ==
  /\ pc[u] = "rinit"
  /\ LET rid == nb_cores - id[u] - 1 IN
     /\ id' = [id EXCEPT ![u] = rid]
     /\ lfsr' = [lfsr EXCEPT ![u] = Add32(seed, rid)]
     /\ addr' = [addr EXCEPT ![u] = ADDR_FIRST + rid * 4]
  /\ pc' = [pc EXCEPT ![u] = "read"]
  /\ UNCHANGED <<gen, round, order, cfg, mem, glob_errors, iter, cnt, tmp, ret, lock, bar, host,
                 wlog, rlog, nadd, faults>>

\* the write of word a that core w is about to make, if any
PendingWrite(w, a) == pc[w] = "write" /\ addr[w] < addr_last /\ addr[w] = a

\* what a load of word a by core u can return: the stored word, or, when
\* another core's store to a is in flight at the same time (a data race on
\* an aligned 32-bit word), also the word being stored
ReadOutcomes(u, a) ==
  {mem[a]} \cup {lfsr_iter_word(lfsr[w]) : w \in {x \in Cores \ {u} : PendingWrite(x, a)}}

\* read_step counting the differing words instead of the differing bits
read_step_count_words(u) ==
  /\ pc[u] = "read"
  /\ IF addr[u] < addr_last
     THEN \E v \in ReadOutcomes(u, addr[u]) :
          LET l == lfsr_iter_word(lfsr[u]) IN
          /\ lfsr' = [lfsr EXCEPT ![u] = l]
          /\ cnt' = [cnt EXCEPT ![u] = @ + (IF l # v THEN 1 ELSE 0)]
          /\ rlog' = [rlog EXCEPT ![addr[u]] =
                        Append(@, [it |-> iter[u], core |-> u, exp |-> l, got |-> v])]
          /\ addr' = [addr EXCEPT ![u] = @ + 4 * nb_cores]
          /\ UNCHANGED <<pc, iter>>
     ELSE /\ iter' = [iter EXCEPT ![u] = @ + 1]
          /\ pc' = [pc EXCEPT ![u] = "for"]
          /\ UNCHANGED <<lfsr, cnt, rlog, addr>>
  /\ UNCHANGED <<gen, round, order, cfg, mem, glob_errors, id, tmp, ret, lock, bar, host, wlog, nadd, faults>>

\* read_step storing the expected word back: *addr = lfsr
read_step_writes_back(u) ==
  /\ pc[u] = "read"
  /\ IF addr[u] < addr_last
     THEN \E v \in ReadOutcomes(u, addr[u]) :
          LET l == lfsr_iter_word(lfsr[u]) IN
          /\ lfsr' = [lfsr EXCEPT ![u] = l]
          /\ cnt' = [cnt EXCEPT ![u] = @ + pulp_cnt(Xor32(l, v))]
          /\ mem' = [mem EXCEPT ![addr[u]] = l]
          /\ rlog' = [rlog EXCEPT ![addr[u]] =
                        Append(@, [it |-> iter[u], core |-> u, exp |-> l, got |-> v])]
          /\ addr' = [addr EXCEPT ![u] = @ + 4 * nb_cores]
          /\ UNCHANGED <<pc, iter>>
     ELSE /\ iter' = [iter EXCEPT ![u] = @ + 1]
          /\ pc' = [pc EXCEPT ![u] = "for"]
          /\ UNCHANGED <<lfsr, cnt, rlog, addr, mem>>
  /\ UNCHANGED <<gen, round, order, cfg, glob_errors, id, tmp, ret, lock, bar, host, wlog,
                 nadd, faults>>

\* one turn of the verify loop: lfsr = lfsr_iter_word(lfsr);
\* cnt += __builtin_pulp_cnt(lfsr ^ *addr); addr += 4 * NB_CORES;
\* at the end of the loop the for statement's iter++
read_step(u) ==
  /\ pc[u] = "read"
  /\ IF addr[u] < addr_last
     THEN \E v \in ReadOutcomes(u, addr[u]) :
          LET l == lfsr_iter_word(lfsr[u]) IN
          /\ lfsr' = [lfsr EXCEPT ![u] = l]
          /\ cnt' = [cnt EXCEPT ![u] = @ + pulp_cnt(Xor32(l, v))]
          /\ rlog' = [rlog EXCEPT ![addr[u]] =
                        Append(@, [it |-> iter[u], core |-> u, exp |-> l, got |-> v])]
          /\ addr' = [addr EXCEPT ![u] = @ + 4 * nb_cores]
          /\ UNCHANGED <<pc, iter>>
     ELSE /\ iter' = [iter EXCEPT ![u] = @ + 1]
          /\ pc' = [pc EXCEPT ![u] = "for"]
          /\ UNCHANGED <<lfsr, cnt, rlog, addr>>
  /\ UNCHANGED <<gen, round, order, cfg, mem, glob_errors, id, tmp, ret, lock, bar, host, wlog, nadd, faults>>

\* a critical section that does not exclude
critical_enter_no_wait(u) ==
  /\ pc[u] = "enter"
  /\ lock' = u
  /\ pc' = [pc EXCEPT ![u] = "load"]
  /\ UNCHANGED <<gen, round, order, cfg, mem, glob_errors, locals, bar, host, wlog, rlog, nadd, faults>>

\* pi_cl_team_critical_enter: blocks while another core is inside
pi_cl_team_critical_enter(u) ==
  /\ pc[u] = "enter"
  /\ lock = NoCore
  /\ lock' = u
  /\ pc' = [pc EXCEPT ![u] = "load"]
  /\ UNCHANGED <<gen, round, order, cfg, mem, glob_errors, locals, bar, host, wlog, rlog, nadd, faults>>

\* glob_errors += cnt, the load
add_load(u) ==
  /\ pc[u] = "load"
  /\ tmp' = [tmp EXCEPT ![u] = glob_errors]
  /\ pc' = [pc EXCEPT ![u] = "store"]
  /\ UNCHANGED <<gen, round, order, cfg, mem, glob_errors, id, iter, lfsr, addr, cnt, ret, lock,
                 bar, host, wlog, rlog, nadd, faults>>

\* glob_errors += cnt, the store
add_store(u) ==
  /\ pc[u] = "store"
  /\ glob_errors' = tmp[u] + cnt[u]
  /\ pc' = [pc EXCEPT ![u] = "exit"]
  /\ nadd' = [nadd EXCEPT ![u] = @ + 1]
  /\ order' = Append(order, u)
  /\ UNCHANGED <<gen, round, cfg, mem, locals, lock, bar, host, wlog, rlog, faults>>

\* pi_cl_team_critical_exit
pi_cl_team_critical_exit(u) ==
  /\ pc[u] = "exit"
  /\ lock' = NoCore
  /\ pc' = [pc EXCEPT ![u] = "ret"]
  /\ UNCHANGED <<gen, round, order, cfg, mem, glob_errors, locals, bar, host, wlog, rlog, nadd, faults>>

\* run_test returning the local count: return cnt
run_test_return_cnt(u) ==
  /\ pc[u] = "ret"
  /\ ret' = [ret EXCEPT ![u] = cnt[u]]
  /\ pc' = [pc EXCEPT ![u] = "bar3"]
  /\ UNCHANGED <<gen, round, order, cfg, mem, glob_errors, id, iter, lfsr, addr, cnt, tmp,
                 lock, bar, host, wlog, rlog, nadd, faults>>

\* return glob_errors; back in pe_entry the core calls pi_cl_team_barrier
run_test_return(u) ==
  /\ pc[u] = "ret"
  /\ ret' = [ret EXCEPT ![u] = glob_errors]
  /\ pc' = [pc EXCEPT ![u] = "bar3"]
  /\ UNCHANGED <<gen, round, order, cfg, mem, glob_errors, id, iter, lfsr, addr, cnt, tmp, lock,
                 bar, host, wlog, rlog, nadd, faults>>

(***************************************************************************)
(* The memory under test: a fault flips the bits m of the word at a, at    *)
(* most once in a run.  The record keeps when it struck: whether every     *)
(* core had left the write loop of its first iteration and whether the     *)
(* word had been verified yet.                                             *)
(***************************************************************************)
PastFirstWrite(u) == pc[u] \notin {"off", "for", "write"} \/ iter[u] > 0

Corrupt(a, m) ==
  /\ fc = "forked"
  /\ faults = <<>>
  /\ mem' = [mem EXCEPT ![a] = Xor32(@, m)]
  /\ faults' = Append(faults, [addr |-> a, mask |-> m,
                               written |-> \A u \in Cores : PastFirstWrite(u),
                               unread |-> rlog[a] = <<>>])
  /\ UNCHANGED <<gen, round, order, cfg, glob_errors, pc, locals, lock, bar, host, wlog, rlog, nadd>>

Next ==
  \/ launch_cluster_task
  \/ cluster_entry
  \/ cluster_return
  \/ test_entry
  \/ \E u \in Cores : for_iter(u)
  \/ \E u \in Cores : write_step(u)
  \/ \E u \in Cores : pi_cl_team_barrier(u)
  \/ \E u \in Cores : read_init(u)
  \/ \E u \in Cores : read_step(u)
  \/ \E u \in Cores : pi_cl_team_critical_enter(u)
  \/ \E u \in Cores : add_load(u)
  \/ \E u \in Cores : add_store(u)
  \/ \E u \in Cores : pi_cl_team_critical_exit(u)
  \/ \E u \in Cores : run_test_return(u)

\* the test on a memory that keeps what is written to it
Spec == Init /\ [][Next]_vars

NextFault ==
  \/ Next
  \/ \E a \in Region, m \in Masks : Corrupt(a, m)

\* the test under a scheduler that keeps running what can run: the cores
\* and the fabric controller are hardware threads that never stop
InitLive == Init /\ seed = DEFAULT_SEED

SpecLive == InitLive /\ [][Next]_vars /\ WF_vars(Next)

\* the test on a memory struck by a fault
SpecFault == InitFault /\ [][NextFault]_vars

\* the builds with several iterations, the source's DEFAULT_SEED and a
\* small team
InitFaultIter ==
  /\ gen = GenIdle
  /\ infinite_loop = FALSE
  /\ seed = DEFAULT_SEED
  /\ nb_cores \in 1 .. MaxCoresIter
  /\ nb_iter \in 1 .. MaxIter
  /\ addr_last \in {ADDR_FIRST + 4 * k : k \in 1 .. MaxWords}
  /\ InitState

\* the builds with and without INFINITE_LOOP, with the source's
\* DEFAULT_SEED and NB_ITER and a small team
InitInf ==
  /\ gen = GenIdle
  /\ infinite_loop \in BOOLEAN
  /\ seed = DEFAULT_SEED
  /\ nb_cores \in 1 .. MaxCoresIter
  /\ nb_iter = NB_ITER
  /\ addr_last \in {ADDR_FIRST + 4 * k : k \in 1 .. MaxWords}
  /\ InitState

\* both builds on a memory struck by a fault
SpecInf == InitInf /\ [][NextFault]_vars

\* the test of several iterations on a memory struck by a fault
SpecFaultIter == InitFaultIter /\ [][NextFault]_vars

(***************************************************************************)
(* The sequence generator on its own: from a sampled state s0 the register *)
(* is advanced byte by byte, by the table (USE_BYTE_FEEDBACK) and by eight *)
(* single-bit steps (the build without it), side by side.                  *)
(***************************************************************************)
\* the 256 states that are a table index, the seeds, and states with all
\* four bytes in use
GenSamples ==
  {<<b, 0, 0, 0>> : b \in 0 .. 255}
    \cup Seeds
    \cup {<<b, 255 - b, (b * 13 + 5) % 256, (b * 29 + 11) % 256>> : b \in {17 * k : k \in 0 .. 15}}

InitGen ==
  /\ infinite_loop = FALSE
  /\ seed = DEFAULT_SEED
  /\ nb_cores = 1
  /\ nb_iter = NB_ITER
  /\ addr_last = ADDR_FIRST + 4
  /\ InitState
  /\ \E s \in GenSamples : gen = [s0 |-> s, tab |-> s, bit |-> s, n |-> 0]

gen_step ==
  /\ gen.n < MaxBytes
  /\ gen' = [gen EXCEPT !.tab = lfsr_iter_byte(@),
                        !.bit = lfsr_iter_byte_bits(@),
                        !.n = @ + 1]
  /\ UNCHANGED <<cfg, round, order, mem, glob_errors, pc, locals, lock, bar, host,
                 wlog, rlog, nadd, faults>>

NextGen == gen_step

SpecGen == InitGen /\ [][NextGen]_vars

(***************************************************************************)
(* Properties.                                                             *)
(***************************************************************************)
\* the core whose write loop visits word a
Owner(a) == ((a - ADDR_FIRST) \div 4) % nb_cores

\* the logged writes, and verify reads, of word a in iteration it
WritesOf(a, it) == SelectSeq(wlog[a], LAMBDA r : r.it = it)
ReadsOf(a, it) == SelectSeq(rlog[a], LAMBDA r : r.it = it)

\* core u has left the write loop, the verify loop, of iteration it
WroteAll(u, it) ==
  iter[u] > it \/ (iter[u] = it /\ pc[u] \notin {"off", "for", "write"})
VerifiedAll(u, it) == iter[u] > it

\* core u has left the team critical section
Aggregated(u) == pc[u] \in {"ret", "bar3", "done"}
AllAggregated == \A u \in Cores : Aggregated(u)

\* core u has been released from the barrier that precedes the aggregation
PassedBar2(u) == pc[u] \in {"enter", "load", "store", "exit", "ret", "bar3", "done"}

\* cnt[0] + ... + cnt[n - 1]
RECURSIVE SumCnt(_)
SumCnt(n) == IF n = 0 THEN 0 ELSE cnt[n - 1] + SumCnt(n - 1)

\* C1: on a memory that keeps what the cores write, glob_errors is 0 once
\* every core has left the critical section (and no core counted a
\* mismatch), for every team size, seed, region and interleaving.
C1_NoFalsePositives ==
  (faults = <<>> /\ AllAggregated) =>
    (glob_errors = 0 /\ \A u \in Cores : cnt[u] = 0)

C1_Witness ==
  /\ fc = "exit"
  /\ nb_cores = 3 /\ nb_iter = 2 /\ NbWords = 3
  /\ faults = <<>>
  /\ \A a \in Region : Len(rlog[a]) = 2
  /\ glob_errors = 0

\* C2: with one iteration, a fault that flips the bits of mask m in one
\* word after every core has left the write loop and before that word is
\* verified makes the final glob_errors exactly the number of bits of m.
C2_ExactDetection ==
  (/\ nb_iter = 1
   /\ AllAggregated
   /\ Len(faults) = 1
   /\ faults[1].written
   /\ faults[1].unread) =>
    glob_errors = pulp_cnt(faults[1].mask)

C2_Witness ==
  /\ fc = "exit"
  /\ nb_cores = 3
  /\ Len(faults) = 1
  /\ faults[1].written /\ faults[1].unread
  /\ pulp_cnt(faults[1].mask) = 3
  /\ glob_errors = 3

\* C3: a verify read of iteration it is made only after every word of the
\* region has received its write of iteration it; while a core is in the
\* verify loop of an iteration no core is before or inside the write loop
\* of that iteration.
C3_WriteBeforeVerify ==
  /\ \A a \in Region : \A k \in 1 .. Len(rlog[a]) :
       \A b \in Region : WritesOf(b, rlog[a][k].it) # <<>>
  /\ \A u \in Cores : pc[u] = "read" =>
       \A w \in Cores : WroteAll(w, iter[u])

C3_Witness ==
  /\ nb_cores = 3 /\ nb_iter = 2 /\ NbWords = 3
  /\ \E u \in Cores : pc[u] = "read" /\ iter[u] = 1
  /\ \E a \in Region : Len(rlog[a]) = 2

\* C4: no two cores ever have conflicting accesses to the same word
\* enabled at once (one of them a write-loop store, the other a write-loop
\* store or a verify-loop load).
PendingRead(w, a) == pc[w] = "read" /\ addr[w] < addr_last /\ addr[w] = a

C4_NoDataRace ==
  \A u \in Cores : \A w \in Cores \ {u} : \A a \in Region :
    ~(PendingWrite(u, a) /\ (PendingWrite(w, a) \/ PendingRead(w, a)))

\* C5: in every iteration each word of the region is written at most once,
\* by the core its index selects (index modulo the team size), and exactly
\* once when every core has left the write loop of that iteration; no
\* write falls outside the region.
C5_PartitionBijection ==
  /\ DOMAIN wlog = Region
  /\ \A a \in Region : \A it \in 0 .. (nb_iter - 1) :
       /\ Len(WritesOf(a, it)) <= 1
       /\ \A k \in 1 .. Len(WritesOf(a, it)) : WritesOf(a, it)[k].core = Owner(a)
       /\ (\A u \in Cores : WroteAll(u, it)) => Len(WritesOf(a, it)) = 1

C5_Witness ==
  /\ nb_cores = 2 /\ NbWords = 3 /\ nb_iter = 2
  /\ \A u \in Cores : WroteAll(u, 1)
  /\ \A a \in Region : Len(wlog[a]) = 2

\* C6: in every iteration each word is verified at most once, by the core
\* whose reversed identity is the word's writer, against exactly the value
\* the writer stored in that iteration, and exactly once when every core
\* has left the verify loop of that iteration.
C6_VerifyReconstructs ==
  \A a \in Region : \A it \in 0 .. (nb_iter - 1) :
    /\ Len(ReadsOf(a, it)) <= 1
    /\ \A k \in 1 .. Len(ReadsOf(a, it)) :
         /\ nb_cores - ReadsOf(a, it)[k].core - 1 = Owner(a)
         /\ Len(WritesOf(a, it)) = 1
         /\ WritesOf(a, it)[1].core = Owner(a)
         /\ WritesOf(a, it)[1].val = ReadsOf(a, it)[k].exp
    /\ (\A u \in Cores : VerifiedAll(u, it)) => Len(ReadsOf(a, it)) = 1

C6_Witness ==
  /\ nb_cores = 3 /\ NbWords = 3 /\ nb_iter = 2
  /\ \A u \in Cores : VerifiedAll(u, 1)
  /\ \A a \in Region : Len(rlog[a]) = 2 /\ rlog[a][2].exp = wlog[a][2].val

\* C7 as stated: every word is verified by a core other than its writer.
C7_CrossUnitAlways ==
  \A a \in Region : \A k \in 1 .. Len(rlog[a]) : rlog[a][k].core # Owner(a)

\* C7 amended: a word is verified by its own writer exactly when the team
\* size is odd and the writer is the middle core (NB_CORES - 1) / 2; for an
\* even team size every word is verified by a core other than its writer.
C7_CrossUnitUnlessMiddle ==
  \A a \in Region : \A k \in 1 .. Len(rlog[a]) :
    (rlog[a][k].core = Owner(a)) <=>
      (nb_cores % 2 = 1 /\ Owner(a) = (nb_cores - 1) \div 2)

C7_Witness ==
  /\ nb_cores = 3 /\ NbWords = 3
  /\ \E a \in Region : rlog[a] # <<>> /\ rlog[a][1].core = Owner(a) /\ Owner(a) = 1
  /\ \E a \in Region : rlog[a] # <<>> /\ rlog[a][1].core # Owner(a)

\* C8: glob_errors changes only in the store of the core that holds the
\* critical section; at most one core is inside the section, and it is the
\* holder; no core stores to glob_errors more than once, and a core that
\* has left the section has stored once; when every core has left the
\* section glob_errors is the sum of the cores' local counts.
C8_MutualExclusion ==
  /\ Cardinality({u \in Cores : pc[u] \in {"load", "store", "exit"}}) <= 1
  /\ \A u \in Cores : pc[u] \in {"load", "store", "exit"} => lock = u

C8_AddedOnce ==
  /\ \A u \in Cores : nadd[u] <= 1
  /\ \A u \in Cores : Aggregated(u) => nadd[u] = 1

C8_OnlyInsideSection ==
  glob_errors' # glob_errors =>
    \E u \in Cores : lock = u /\ pc[u] = "store" /\ pc'[u] = "exit"
                     /\ glob_errors' = glob_errors + cnt[u]

C8_RaceFreeAggregation ==
  /\ [](C8_MutualExclusion /\ C8_AddedOnce)
  /\ [](AllAggregated => glob_errors = SumCnt(nb_cores))
  /\ [][C8_OnlyInsideSection]_vars

C8_Witness ==
  /\ nb_cores = 3
  /\ AllAggregated
  /\ \A u \in Cores : nadd[u] = 1
  /\ \E u \in Cores : cnt[u] = 3
  /\ glob_errors = 3

\* C9: when some core has stored to glob_errors, every core has been
\* released from the barrier that follows the loop, has left the verify
\* loop of its last iteration, and every word has been verified in every
\* iteration.
C9_VerifyBeforeReduce ==
  (\E u \in Cores : nadd[u] > 0 \/ pc[u] \in {"load", "store"}) =>
    /\ \A w \in Cores : PassedBar2(w) /\ iter[w] = nb_iter
    /\ \A a \in Region : Len(rlog[a]) = nb_iter

C9_Witness ==
  /\ nb_cores = 3 /\ nb_iter = 2
  /\ \E u \in Cores : nadd[u] = 1
  /\ \E w \in Cores : pc[w] = "enter"

\* C10: the value launch_cluster_task returns is read when every core has
\* left pe_entry and has stored to glob_errors once, it is the final
\* glob_errors and the sum of the local counts; glob_errors is 0 from the
\* launch until the first store; test_entry reports success iff the value
\* is 0 and failure otherwise.
C10_ReturnedValueIsFinal ==
  /\ fc \in {"returned", "exit"} =>
       /\ \A u \in Cores : pc[u] = "done" /\ nadd[u] = 1
       /\ errors = glob_errors
       /\ errors = SumCnt(nb_cores)
  /\ (fc \in {"sent", "forked"} /\ \A u \in Cores : nadd[u] = 0) => glob_errors = 0
  /\ fc = "exit" =>
       /\ outcome \in {"success", "failure"}
       /\ outcome = "success" <=> errors = 0
       /\ outcome = "failure" <=> errors # 0
  /\ fc # "exit" => outcome = "none"

C10_Witness ==
  /\ fc = "exit"
  /\ nb_cores = 3
  /\ outcome = "failure"
  /\ errors = 1

\* C11: advancing a register by the table lookup equals advancing it by
\* eight single-bit steps with FEEDBACK = 0x80000057, from each of the 256
\* table indices and from states with all bytes in use, byte after byte;
\* in particular each table entry is eight bit steps of its index.
C11_TableEquivalence ==
  /\ gen.tab = gen.bit
  /\ (gen.n = 1 /\ gen.s0[2] = 0 /\ gen.s0[3] = 0 /\ gen.s0[4] = 0) =>
       gen.bit = lfsr_byte_feedback[gen.s0[1] + 1]

C11_Witness ==
  /\ gen.s0 = <<\h80, 0, 0, 0>>
  /\ gen.n = 1
  /\ gen.tab = FEEDBACK
  /\ gen.bit = FEEDBACK

\* C12: a build whose region holds fewer words than NB_CORES is rejected:
\* no core stores a word and test_entry reports neither success nor
\* failure.
C12_ConfigRejected ==
  NbWords < nb_cores =>
    /\ \A a \in Region : wlog[a] = <<>>
    /\ outcome = "none"

\* C13: under a fair scheduler every core completes every iteration, the
\* aggregation and the final barrier of pe_entry, and test_entry reports;
\* the cores waiting at the barrier are all at the same call of the same
\* iteration, and a release moves every core of the team from that same
\* call.
C13_SameCall ==
  \A u \in bar : \A w \in bar :
    pc[u] \in {"bar1", "bar2", "bar3"} /\ pc[u] = pc[w] /\ iter[u] = iter[w]

C13_ReleaseTogether ==
  \A u \in Cores :
    (pc[u] \in {"bar1", "bar2", "bar3"} /\ pc'[u] # pc[u]) =>
      \A w \in Cores : pc[w] = pc[u] /\ iter[w] = iter[u] /\ pc'[w] = AfterBarrier(pc[u])

C13_Finished ==
  /\ fc = "exit"
  /\ \A u \in Cores : pc[u] = "done" /\ iter[u] = nb_iter /\ nadd[u] = 1
  /\ \A a \in Region : Len(wlog[a]) = nb_iter /\ Len(rlog[a]) = nb_iter
  /\ bar = {} /\ lock = NoCore

C13_Termination ==
  /\ []C13_SameCall
  /\ [][C13_ReleaseTogether]_vars
  /\ <>C13_Finished

C13_Witness ==
  /\ nb_cores = 3 /\ nb_iter = 2 /\ NbWords = 3
  /\ C13_Finished

\* lfsr_iter_word applied k times to l
RECURSIVE IterWords(_, _)
IterWords(l, k) == IF k = 0 THEN l ELSE IterWords(lfsr_iter_word(l), k - 1)

\* the index of word a in the region
WordIndex(a) == (a - ADDR_FIRST) \div 4

\* C14: once every core has left the write loop of the first iteration
\* (so from the release of the first barrier on), the word of index w
\* holds lfsr_iter_word applied (w div N) + 1 times to seed + (w mod N),
\* the sum taken modulo 2^32, whatever the interleaving.
C14_PatternDetermined ==
  (faults = <<>> /\ \A u \in Cores : WroteAll(u, 0)) =>
    \A a \in Region :
      mem[a] = IterWords(Add32(seed, WordIndex(a) % nb_cores),
                         (WordIndex(a) \div nb_cores) + 1)

C14_Witness ==
  /\ nb_cores = 2 /\ NbWords = 3 /\ nb_iter = 2
  /\ seed = <<\hff, \hff, \hff, \hff>>
  /\ \E u \in Cores : pc[u] = "read" /\ iter[u] = 0
  /\ mem[ADDR_FIRST + 4] = ZeroWord
  /\ mem[ADDR_FIRST + 8] = IterWords(seed, 2)

\* the bit mismatches core u has observed in its verify loops so far
RECURSIVE SeenIn(_, _)
SeenIn(log, u) ==
  IF log = <<>> THEN 0
  ELSE (IF log[1].core = u THEN pulp_cnt(Xor32(log[1].exp, log[1].got)) ELSE 0)
       + SeenIn(Tail(log), u)

RECURSIVE SeenAt(_, _)
SeenAt(as, u) ==
  IF as = {} THEN 0
  ELSE LET a == CHOOSE x \in as : TRUE IN SeenIn(rlog[a], u) + SeenAt(as \ {a}, u)

RECURSIVE SeenBy(_)
SeenBy(n) == IF n = 0 THEN 0 ELSE SeenAt(Region, n - 1) + SeenBy(n - 1)

\* C15: the local count of a core is the number of bit mismatches of all
\* its verify reads of all iterations so far (it is never reset), each
\* core stores to glob_errors at most once, after its last iteration, and
\* when every core has left the critical section glob_errors is the sum
\* over all iterations and cores of the mismatches observed.
C15_Cumulative ==
  /\ \A u \in Cores : cnt[u] = SeenAt(Region, u)
  /\ \A u \in Cores : nadd[u] <= 1 /\ (nadd[u] = 1 => iter[u] = nb_iter)
  /\ AllAggregated =>
       /\ glob_errors = SeenBy(nb_cores)
       /\ \A u \in Cores : nadd[u] = 1

C15_Witness ==
  /\ nb_cores = 2 /\ nb_iter = 2 /\ NbWords = 3
  /\ AllAggregated
  /\ faults # <<>>
  /\ \E a \in Region :
       /\ Len(rlog[a]) = 2
       /\ rlog[a][1].it = 0 /\ rlog[a][1].exp # rlog[a][1].got
       /\ rlog[a][2].exp = rlog[a][2].got
  /\ glob_errors = 3

\* C16: every store to a word stores the value of the first store to it;
\* once every core has left the write loop of the first iteration no step
\* changes the content of the region; a verify load that races with the
\* store of the next iteration has one possible outcome, and every verify
\* read returned the expected value.
C16_SameValues ==
  /\ \A a \in Region : \A k \in 1 .. Len(wlog[a]) : wlog[a][k].val = wlog[a][1].val
  /\ \A a \in Region : \A k \in 1 .. Len(rlog[a]) : rlog[a][k].got = rlog[a][k].exp
  /\ \A u \in Cores : \A a \in Region :
       PendingRead(u, a) => ReadOutcomes(u, a) = {mem[a]}

C16_RegionStable ==
  (\A u \in Cores : WroteAll(u, 0)) => mem' = mem

C16_IdempotentRewrite ==
  /\ []C16_SameValues
  /\ [][C16_RegionStable]_vars

C16_Witness ==
  /\ nb_iter = 2
  /\ \E u \in Cores : \E w \in Cores \ {u} : \E a \in Region :
       /\ PendingWrite(u, a) /\ iter[u] = 1
       /\ PendingRead(w, a) /\ iter[w] = 0
       /\ ReadOutcomes(w, a) = {mem[a]}
       /\ mem[a] # Junk

\* C17: in the INFINITE_LOOP build no core leaves the loop: no core ever
\* reaches the barrier before the aggregation or the critical section,
\* glob_errors stays 0 whatever the cores have counted, and the fabric
\* controller never gets the task back; the cores waiting at the barrier
\* are all at the barrier between the phases, in the same pass and
\* iteration.
C17_NeverAggregates ==
  infinite_loop =>
    /\ glob_errors = 0
    /\ \A u \in Cores :
         /\ pc[u] \in {"off", "for", "write", "bar1", "rinit", "read"}
         /\ nadd[u] = 0
    /\ lock = NoCore
    /\ fc \in {"start", "sent", "forked"}
    /\ \A u \in bar : \A w \in bar :
         pc[u] = "bar1" /\ round[u] = round[w] /\ iter[u] = iter[w]

C17_Witness ==
  /\ infinite_loop
  /\ nb_cores = 2
  /\ \A u \in Cores : round[u] = 2 /\ pc[u] = "for"
  /\ \E u \in Cores : cnt[u] = 3
  /\ glob_errors = 0

\* C18: a step of the program (any step but the memory fault) that stores
\* to the region is a write-loop step of a core, stores to the one word
\* at that core's addr, which lies in the region and is owned by the core,
\* and leaves glob_errors alone; so no step of the verify loop or of the
\* aggregation changes a word; glob_errors is stored to only by a core at
\* the store of the aggregation, while no core is inside a phase.
C18_Frame ==
  faults' = faults =>
    /\ (mem' # mem \/ wlog' # wlog) =>
         \E u \in Cores :
           /\ pc[u] = "write"
           /\ addr[u] \in Region
           /\ Owner(addr[u]) = u
           /\ \A b \in Region \ {addr[u]} : mem'[b] = mem[b] /\ wlog'[b] = wlog[b]
           /\ glob_errors' = glob_errors
    /\ (glob_errors' # glob_errors \/ nadd' # nadd) =>
         /\ \E u \in Cores : pc[u] = "store" /\ pc'[u] = "exit"
         /\ \A w \in Cores : pc[w] \notin {"for", "write", "bar1", "rinit", "read"}
         /\ mem' = mem /\ wlog' = wlog

C18_FrameOfPhases == [][C18_Frame]_vars

C18_Witness ==
  /\ nb_cores = 2 /\ nb_iter = 2 /\ NbWords = 3
  /\ faults # <<>>
  /\ AllAggregated
  /\ glob_errors = 3
  /\ \E a \in Region : mem[a] # wlog[a][2].val

\* every core has returned from run_test
AllReturned == \A u \in Cores : pc[u] \in {"bar3", "done"}

\* C19 as stated: glob_errors never decreases, the value run_test returns
\* on a core lies between the core's local count and the final total, and
\* it is the final total only on the core that aggregated last.
C19_OnlyLastReturnsTotal ==
  AllReturned =>
    \A u \in Cores :
      /\ cnt[u] <= ret[u] /\ ret[u] <= glob_errors
      /\ ret[u] = glob_errors => u = order[Len(order)]

\* C19 amended: glob_errors never decreases; the value run_test returns on
\* a core is at least glob_errors right after the core's own addition (so
\* at least its local count) and at most the final total; the core that
\* aggregated last returns the final total (other cores may, too).
C19_ReturnBounds ==
  /\ \A u \in Cores : pc[u] \in {"bar3", "done"} =>
       /\ tmp[u] + cnt[u] <= ret[u]
       /\ cnt[u] <= ret[u]
       /\ ret[u] <= glob_errors
  /\ AllReturned =>
       /\ Len(order) = nb_cores
       /\ ret[order[Len(order)]] = glob_errors

C19_MonotoneAndBounded ==
  /\ []C19_ReturnBounds
  /\ [][glob_errors' >= glob_errors]_vars

C19_Witness ==
  /\ nb_cores = 3
  /\ AllReturned
  /\ glob_errors = 3
  /\ \E u \in Cores : u # order[Len(order)] /\ ret[u] = glob_errors
  /\ \E u \in Cores : ret[u] < glob_errors

\* the register value that lfsr_iter_byte maps to y: the top byte of y
\* names the table entry, which gives back the bytes shifted out
UnIterByte(y) ==
  LET i == CHOOSE j \in 0 .. 255 : lfsr_byte_feedback[j + 1][4] = y[4]
      x == Xor32(y, lfsr_byte_feedback[i + 1])
  IN  <<i, x[1], x[2], x[3]>>

\* C20: the top bytes of the 256 table entries are pairwise distinct and
\* entry 0 is 0; a byte step, and a word step, can be undone (the step is
\* injective); 0 is a fixed point; a register that starts non-zero is
\* never 0 and the next byte and word steps do not make it 0, a register
\* that starts at 0 stays 0.
C20_InjectiveZeroApart ==
  /\ Cardinality({lfsr_byte_feedback[j][4] : j \in 1 .. 256}) = 256
  /\ lfsr_byte_feedback[1] = ZeroWord
  /\ UnIterByte(lfsr_iter_byte(gen.tab)) = gen.tab
  /\ UnIterByte(UnIterByte(UnIterByte(UnIterByte(lfsr_iter_word(gen.tab))))) = gen.tab
  /\ lfsr_iter_byte(ZeroWord) = ZeroWord /\ lfsr_iter_word(ZeroWord) = ZeroWord
  /\ gen.s0 # ZeroWord =>
       /\ gen.tab # ZeroWord
       /\ lfsr_iter_byte(gen.tab) # ZeroWord
       /\ lfsr_iter_word(gen.tab) # ZeroWord
  /\ gen.s0 = ZeroWord => gen.tab = ZeroWord

C20_Witness ==
  /\ gen.s0 = <<1, 0, 0, 0>>
  /\ gen.n = 4
  /\ gen.tab # ZeroWord
  /\ UnIterByte(UnIterByte(UnIterByte(UnIterByte(gen.tab)))) = gen.s0

====
